---- MODULE Spec2Model ----
(***************************************************************************)
(* Model of the batched log-ingestion pipeline of src/main.go:             *)
(*   - receiveLogs  : the POST /logs handler, one run per inbound request  *)
(*   - logChannel   : the buffered channel between handlers and flushLogs  *)
(*   - flushLogs    : the single background goroutine (select loop)        *)
(*   - batchSaveLogs: the multi-row INSERT built from the accumulated logs *)
(*   - main         : process start and process exit                       *)
(* Strings are modelled as sequences of one-character strings.             *)
(***************************************************************************)
EXTENDS Integers, Sequences, FiniteSets, TLC

\* ------------------------------------------------------------------ bounds
\* Capacity of logChannel in the model (the program uses 100, main.go:21).
ChanCap == 2
\* Total number of requests served in one behaviour.
MaxReq == 3
\* Largest value of the wall clock.
MaxNow == 1
\* Longest request body drawn in DecodeSpec.
MaxLen == 4

\* The concurrent request handlers (gin runs one goroutine per request; a
\* producer issues its requests one after the other).
Producers == {"p1", "p2"}

VARIABLES
    running,      \* the process is alive (main has not returned)
    now,          \* the wall clock read by time.Now()
    nreq,         \* requests received so far (also numbers the entries)
    pc,           \* pc[p]: position of producer p's handler: "idle" | "send"
    cur,          \* cur[p]: the LogEntry p's handler is sending on logChannel
    req,          \* req[p]: the request p's handler last received
    resp,         \* resp[p]: HTTP status written for req[p], 0 while none yet
    logChannel,   \* contents of the buffered channel, oldest first
    tickC,        \* ticker.C holds an undelivered tick (channel of capacity 1)
    fpc,          \* position of flushLogs: "select" | "exec" (inside db.Exec)
    logs,         \* flushLogs' local slice logs
    mu,           \* flushLogs' local mutex mu is held
    inflight,     \* the statement db.Exec is executing, NoStmt when none
    writes,       \* history: the calls of batchSaveLogs that returned, in order
    enqueued,     \* history: the entries whose channel send completed, in order
    env,          \* the environment: API_KEY and LOG_API_KEY ("" when unset)
    tokens,       \* tokens left in the bucket of rateLimitMiddleware
    greq,         \* the GET /logs request last received
    gresp         \* the response written for greq

\* The state of the GET /logs route.
queryVars == <<env, tokens, greq, gresp>>

vars == <<running, now, nreq, pc, cur, req, resp, logChannel, tickC, fpc, logs,
          mu, inflight, writes, enqueued, env, tokens, greq, gresp>>

\* --------------------------------------------------------------- strings
\* unicode.IsSpace restricted to the characters the model draws.
IsSpace(c) == c \in {" ", "\t", "\n"}

RECURSIVE TrimLeft(_)
TrimLeft(s) ==
    IF s # <<>> /\ IsSpace(Head(s)) THEN TrimLeft(Tail(s)) ELSE s

RECURSIVE TrimRight(_)
TrimRight(s) ==
    IF s # <<>> /\ IsSpace(s[Len(s)]) THEN TrimRight(SubSeq(s, 1, Len(s) - 1))
    ELSE s

\* Mutant of TrimSpace: the body is used untrimmed.
TrimNothing(s) == s

\* strings.TrimSpace
TrimSpace(s) == TrimRight(TrimLeft(s))

\* Index of the first " " of s, 0 when there is none (strings.Index).
IndexSpace(s) ==
    IF \E i \in 1..Len(s) : s[i] = " "
    THEN CHOOSE i \in 1..Len(s) : s[i] = " " /\ \A j \in 1..(i - 1) : s[j] # " "
    ELSE 0

\* Mutant of SplitN2: the line is cut at its last " ".
SplitAtLast(s) ==
    LET I == {i \in 1..Len(s) : s[i] = " "} IN
    IF I = {} THEN <<s>>
    ELSE LET i == CHOOSE x \in I : \A y \in I : y <= x
         IN  <<SubSeq(s, 1, i - 1), SubSeq(s, i + 1, Len(s))>>

\* strings.SplitN(s, " ", 2): one part when s holds no " ", else the text
\* before the first " " and everything after it.
SplitN2(s) ==
    LET i == IndexSpace(s) IN
    IF i = 0 THEN <<s>>
    ELSE <<SubSeq(s, 1, i - 1), SubSeq(s, i + 1, Len(s))>>

\* ---------------------------------------------------------------- values
NoEntry == [id |-> 0]
NoReq == [kind |-> "none"]
NoStmt == [kind |-> "none"]

\* The LogEntry literal of receiveLogs. id and prod are history fields that
\* identify the entry and the handler that built it; the Go struct holds
\* Source, TimeStamp and Message.
LogEntry(id, p, source, ts, message) ==
    [id |-> id, prod |-> p, Source |-> source, TimeStamp |-> ts,
     Message |-> message]

\* ---------------------------------------------------------- batchSaveLogs
QueryPrefix == "INSERT INTO logs (source, timestamp, message) VALUES "

\* fmt.Sprintf("($%d, $%d, $%d),", i*3+1, i*3+2, i*3+3): a placeholder group
\* followed by a comma, for the 0-based index i.
GroupTokens(i) == << <<i * 3 + 1, i * 3 + 2, i * 3 + 3>>, "," >>

\* The loop of batchSaveLogs over logs[1..n]: the query text as a sequence
\* of tokens (the prefix, then a group and a comma per entry).
RECURSIVE BuildQuery(_, _)
BuildQuery(l, n) ==
    IF n = 0 THEN <<QueryPrefix>>
    ELSE BuildQuery(l, n - 1) \o GroupTokens(n - 1)

\* Mutant of BuildArgs: the timestamp argument is the clock at the time of
\* the flush, not the TimeStamp field of the entry.
RECURSIVE BuildArgsFlushTime(_, _)
BuildArgsFlushTime(l, n) ==
    IF n = 0 THEN <<>>
    ELSE BuildArgsFlushTime(l, n - 1) \o <<l[n].Source, now, l[n].Message>>

\* args = append(args, log.Source, log.TimeStamp, log.Message) per entry.
RECURSIVE BuildArgs(_, _)
BuildArgs(l, n) ==
    IF n = 0 THEN <<>>
    ELSE BuildArgs(l, n - 1) \o <<l[n].Source, l[n].TimeStamp, l[n].Message>>

\* Mutant of TrimSuffixComma: the query keeps its last comma.
KeepSuffix(q) == q

\* strings.TrimSuffix(query, ",")
TrimSuffixComma(q) ==
    IF q # <<>> /\ q[Len(q)] = "," THEN SubSeq(q, 1, Len(q) - 1) ELSE q

\* Mutant of batchSaveLogs: the len(logs) == 0 guard is missing.
batchSaveLogsUnguarded(l) ==
    [kind |-> "exec",
     query |-> TrimSuffixComma(BuildQuery(l, Len(l))),
     args |-> BuildArgs(l, Len(l)),
     batch |-> l]

\* batchSaveLogs up to its db.Exec call: NoStmt when it returns nil at once
\* (len(logs) == 0), else the statement handed to db.Exec. batch is the
\* slice it was called with (history).
batchSaveLogs(l) ==
    IF Len(l) = 0 THEN NoStmt
    ELSE [kind |-> "exec",
          query |-> TrimSuffixComma(BuildQuery(l, Len(l))),
          args |-> BuildArgs(l, Len(l)),
          batch |-> l]

\* ------------------------------------------------------------- flushLogs
\* Mutant of AppendLog: the new entry is put in front of the slice.
PrependLog(l, e) == <<e>> \o l

\* Mutant of AppendLog: the new entry replaces the slice.
OverwriteLog(l, e) == <<e>>

\* logs = append(logs, logEntry)
AppendLog(l, e) == Append(l, e)

\* Mutant of ClearLogs: the slice is not cleared after the flush.
KeepLogs(l) == l

\* logs = nil // Clear logs after flush
ClearLogs(l) == <<>>

\* Mutant of ShouldFlush: a flush needs more than one accumulated entry.
ShouldFlushSome(l) == Len(l) > 1

\* if len(logs) > 0
ShouldFlush(l) == Len(l) > 0

\* Mutant of LogsAfterSave: a batch whose write failed is kept for the next
\* flush.
RequeueOnError(l, err) == IF err THEN l ELSE <<>>

\* The value of logs after "if err := batchSaveLogs(logs); err != nil {print}"
\* and "logs = nil": the error is printed and the slice cleared either way.
LogsAfterSave(l, err) == ClearLogs(l)

\* A call of batchSaveLogs that returned nil without reaching db.Exec.
NilReturn(l) == [kind |-> "nil", query |-> <<>>, args |-> <<>>, batch |-> l]

\* The history record of a returned call: exec tells whether db.Exec ran.
CallRecord(st, err) ==
    [exec |-> st.kind = "exec", query |-> st.query, args |-> st.args,
     batch |-> st.batch, err |-> err]

\* Mutant of FlushRecv: the receive case flushes as soon as the slice holds
\* two entries.
FlushRecvSizeDriven ==
    /\ running /\ fpc = "select" /\ ~mu
    /\ Len(logChannel) > 0
    /\ logChannel' = Tail(logChannel)
    /\ logs' = AppendLog(logs, Head(logChannel))
    /\ IF Len(logs') >= 2
       THEN inflight' = batchSaveLogs(logs') /\ fpc' = "exec" /\ mu' = TRUE
       ELSE UNCHANGED <<inflight, fpc, mu>>
    /\ UNCHANGED <<running, now, nreq, pc, cur, req, resp, tickC, writes,
                   enqueued>>
    /\ UNCHANGED queryVars

\* case logEntry := <-logChannel: lock, append, unlock. logs and mu are
\* locals of the one flushLogs goroutine, so the three statements are one step.
FlushRecv ==
    /\ running /\ fpc = "select" /\ ~mu
    /\ Len(logChannel) > 0
    /\ logChannel' = Tail(logChannel)
    /\ logs' = AppendLog(logs, Head(logChannel))
    /\ UNCHANGED <<running, now, nreq, pc, cur, req, resp, tickC, fpc, mu,
                   inflight, writes, enqueued>>
    /\ UNCHANGED queryVars

\* case <-ticker.C: lock; with logs non-empty call batchSaveLogs, which
\* blocks in db.Exec with mu held; with logs empty unlock at once.
FlushTick ==
    /\ running /\ fpc = "select" /\ ~mu
    /\ tickC
    /\ tickC' = FALSE
    /\ IF ShouldFlush(logs)
       THEN LET st == batchSaveLogs(logs) IN
            IF st = NoStmt
            THEN /\ writes' = Append(writes, CallRecord(NilReturn(logs), FALSE))
                 /\ logs' = LogsAfterSave(logs, FALSE)
                 /\ UNCHANGED <<fpc, mu, inflight>>
            ELSE /\ inflight' = st
                 /\ fpc' = "exec"
                 /\ mu' = TRUE
                 /\ UNCHANGED <<logs, writes>>
       ELSE UNCHANGED <<fpc, mu, inflight, logs, writes>>
    /\ UNCHANGED <<running, now, nreq, pc, cur, req, resp, logChannel, enqueued>>
    /\ UNCHANGED queryVars

\* Mutant of ExecReturn: flushLogs goes back to its select without unlocking.
ExecReturnNoUnlock(err) ==
    /\ running /\ fpc = "exec"
    /\ writes' = Append(writes, CallRecord(inflight, err))
    /\ inflight' = NoStmt
    /\ logs' = LogsAfterSave(logs, err)
    /\ fpc' = "select"
    /\ UNCHANGED <<running, now, nreq, pc, cur, req, resp, logChannel, tickC,
                   enqueued, mu>>
    /\ UNCHANGED queryVars

\* db.Exec returns (err is the store's answer); batchSaveLogs returns err,
\* flushLogs prints it, clears logs and unlocks.
ExecReturn(err) ==
    /\ running /\ fpc = "exec"
    /\ writes' = Append(writes, CallRecord(inflight, err))
    /\ inflight' = NoStmt
    /\ logs' = LogsAfterSave(logs, err)
    /\ mu' = FALSE
    /\ fpc' = "select"
    /\ UNCHANGED <<running, now, nreq, pc, cur, req, resp, logChannel, tickC,
                   enqueued>>
    /\ UNCHANGED queryVars

\* The runtime timer of time.NewTicker(flushInterval) sends on ticker.C; the
\* send is dropped when the previous tick has not been received.
TimerFire ==
    /\ running
    /\ ~tickC
    /\ tickC' = TRUE
    /\ UNCHANGED <<running, now, nreq, pc, cur, req, resp, logChannel, fpc,
                   logs, mu, inflight, writes, enqueued>>
    /\ UNCHANGED queryVars

\* ----------------------------------------------------------- receiveLogs
\* A request: ua tells whether the User-Agent holds "Logplex" or "logfwd",
\* readErr whether io.ReadAll fails, body is the request body.
Request(ua, readErr, body) ==
    [kind |-> "post", ua |-> ua, readErr |-> readErr, body |-> body]

\* Mutant of CanSend: the send never waits for a free slot.
CanSendAlways(ch) == TRUE

\* logChannel <- entry can proceed: the channel has a free slot.
CanSend(ch) == Len(ch) < ChanCap

\* receiveLogs from its start to the channel send (or to the error response).
ReceiveLogs(p, r) ==
    /\ running /\ pc[p] = "idle"
    /\ nreq' = nreq + 1
    /\ req' = [req EXCEPT ![p] = r]
    /\ IF ~r.ua
       THEN /\ resp' = [resp EXCEPT ![p] = 401]
            /\ UNCHANGED <<pc, cur>>
       ELSE IF r.readErr
       THEN /\ resp' = [resp EXCEPT ![p] = 500]
            /\ UNCHANGED <<pc, cur>>
       ELSE LET logData == TrimSpace(r.body)
                parts == SplitN2(logData)
            IN  IF Len(parts) < 2
                THEN /\ resp' = [resp EXCEPT ![p] = 400]
                     /\ UNCHANGED <<pc, cur>>
                ELSE /\ cur' = [cur EXCEPT ![p] =
                                   LogEntry(nreq + 1, p, parts[1], now, parts[2])]
                     /\ pc' = [pc EXCEPT ![p] = "send"]
                     /\ resp' = [resp EXCEPT ![p] = 0]
    /\ UNCHANGED <<running, now, logChannel, tickC, fpc, logs, mu, inflight,
                   writes, enqueued>>
    /\ UNCHANGED queryVars

\* Mutant of SendLog: the handler writes its entry to the store itself and
\* answers, as the handler did before the channel was introduced.
SendLogAndSave(p) ==
    /\ running /\ pc[p] = "send"
    /\ fpc = "select" /\ inflight = NoStmt
    /\ inflight' = batchSaveLogs(<<cur[p]>>)
    /\ fpc' = "exec"
    /\ resp' = [resp EXCEPT ![p] = 200]
    /\ pc' = [pc EXCEPT ![p] = "idle"]
    /\ cur' = [cur EXCEPT ![p] = NoEntry]
    /\ UNCHANGED <<running, now, nreq, req, logChannel, enqueued, tickC, logs,
                   mu, writes>>
    /\ UNCHANGED queryVars

\* Mutant of SendLog: a send that does not wait; with the channel full the
\* entry is dropped and the handler still answers 200.
SendLogOrDrop(p) ==
    /\ running /\ pc[p] = "send"
    /\ IF CanSend(logChannel)
       THEN /\ logChannel' = Append(logChannel, cur[p])
            /\ enqueued' = Append(enqueued, cur[p])
       ELSE UNCHANGED <<logChannel, enqueued>>
    /\ resp' = [resp EXCEPT ![p] = 200]
    /\ pc' = [pc EXCEPT ![p] = "idle"]
    /\ cur' = [cur EXCEPT ![p] = NoEntry]
    /\ UNCHANGED <<running, now, nreq, req, tickC, fpc, logs, mu, inflight,
                   writes>>
    /\ UNCHANGED queryVars

\* The channel send completes, then c.JSON(http.StatusOK, ...).
SendLog(p) ==
    /\ running /\ pc[p] = "send"
    /\ CanSend(logChannel)
    /\ logChannel' = Append(logChannel, cur[p])
    /\ enqueued' = Append(enqueued, cur[p])
    /\ resp' = [resp EXCEPT ![p] = 200]
    /\ pc' = [pc EXCEPT ![p] = "idle"]
    /\ cur' = [cur EXCEPT ![p] = NoEntry]
    /\ UNCHANGED <<running, now, nreq, req, tickC, fpc, logs, mu, inflight,
                   writes>>
    /\ UNCHANGED queryVars

\* ------------------------------------------------ GET /logs (query-back)
\* Values of the X-API-KEY header and of the two environment variables; ""
\* is an absent header or an unset variable.
KeyValues == {"", "k1", "k2"}

Envs == [API_KEY : KeyValues, LOG_API_KEY : KeyValues]

\* The keys of the README's configuration example: two different values.
ReadmeEnv == [API_KEY |-> "k1", LOG_API_KEY |-> "k2"]

\* ratelimit.NewBucket(1*time.Second, 5): the capacity of the bucket.
RateCap == 5

\* LIMIT 100 of the query of getLogs.
QueryLimit == 100

\* The columns of "SELECT id, source, timestamp, message".
SelectColumns == 4

\* The destinations of rows.Scan(&log.Source, &log.TimeStamp, &log.Message).
ScanDests == 3

NoGet == [kind |-> "none"]

\* A response of the GET route: reached tells whether db.Query was called,
\* why names the branch that wrote the response, seen is the number of rows
\* the table held at the query (history), rows the entries in the body.
Response(status, reached, why, seen, rows) ==
    [status |-> status, reached |-> reached, why |-> why, seen |-> seen,
     rows |-> rows]

NoResponse == Response(0, FALSE, "none", 0, <<>>)

\* The rows of the logs table: those of the statements that db.Exec executed
\* without error, in insertion order, as <<source, timestamp, message>>.
RECURSIVE TableOf(_)
TableOf(ws) ==
    IF ws = <<>> THEN <<>>
    ELSE LET w == ws[Len(ws)]
             head == TableOf(SubSeq(ws, 1, Len(ws) - 1))
         IN  IF w.exec /\ ~w.err
             THEN head \o [i \in 1..(Len(w.args) \div 3) |->
                             <<w.args[3 * i - 2], w.args[3 * i - 1], w.args[3 * i]>>]
             ELSE head

Table == TableOf(writes)

Min2(a, b) == IF a < b THEN a ELSE b

\* The results "ORDER BY timestamp DESC LIMIT 100" may return for table t:
\* sequences of distinct row numbers of t, of length min(|t|, 100), with
\* non-increasing timestamps, that leave out no row newer than one they hold
\* (the order of rows with equal timestamps is the store's choice).
QueryResults(t) ==
    LET n == Min2(Len(t), QueryLimit) IN
    {r \in [1..n -> 1..Len(t)] :
        /\ \A i, j \in 1..n : i < j => r[i] # r[j] /\ t[r[i]][2] >= t[r[j]][2]
        /\ \A k \in 1..Len(t) :
             (\A i \in 1..n : r[i] # k) => \A i \in 1..n : t[r[i]][2] >= t[k][2]}

\* rows.Scan with d destinations on a row of c columns fails unless d = c.
ScanFails(d, c) == d # c

\* apiAuthentication: the X-API-KEY header against API_KEY.
ApiKeyAccepted(k) == k = env.API_KEY

\* A GET /logs request with X-API-KEY header k runs through
\* apiAuthentication, rateLimitMiddleware and getLogs; qerr tells whether
\* db.Query fails.
GetLogs(k, qerr) ==
    /\ running
    /\ greq' = [kind |-> "get", key |-> k]
    /\ IF ~ApiKeyAccepted(k)
       THEN /\ gresp' = Response(401, FALSE, "apiAuthentication", 0, <<>>)
            /\ UNCHANGED tokens
       ELSE IF tokens = 0
       THEN /\ gresp' = Response(429, FALSE, "rateLimit", 0, <<>>)
            /\ UNCHANGED tokens
       ELSE /\ tokens' = tokens - 1
            /\ IF env.LOG_API_KEY = ""
               THEN gresp' = Response(500, FALSE, "config", 0, <<>>)
               ELSE IF k # env.LOG_API_KEY
               THEN gresp' = Response(401, FALSE, "getLogs", 0, <<>>)
               ELSE IF qerr
               THEN gresp' = Response(500, TRUE, "query", Len(Table), <<>>)
               ELSE \E r \in QueryResults(Table) :
                      IF r # <<>> /\ ScanFails(ScanDests, SelectColumns)
                      THEN gresp' = Response(500, TRUE, "scan", Len(Table), <<>>)
                      ELSE gresp' = Response(200, TRUE, "ok", Len(Table),
                                             [i \in 1..Len(r) |-> Table[r[i]]])
    /\ UNCHANGED <<running, now, nreq, pc, cur, req, resp, logChannel, tickC,
                   fpc, logs, mu, inflight, writes, enqueued, env>>

\* A second passes: the bucket gains a token, up to its capacity.
Refill ==
    /\ running
    /\ tokens < RateCap
    /\ tokens' = tokens + 1
    /\ UNCHANGED <<running, now, nreq, pc, cur, req, resp, logChannel, tickC,
                   fpc, logs, mu, inflight, writes, enqueued, env, greq, gresp>>

\* The GET route before its first request, under environment e.
QueryIdle(e) ==
    /\ env = e
    /\ tokens = RateCap
    /\ greq = NoGet
    /\ gresp = NoResponse

\* ------------------------------------------------------------------ main
\* Time passes.
ClockAdvance ==
    /\ running
    /\ now < MaxNow
    /\ now' = now + 1
    /\ UNCHANGED <<running, nreq, pc, cur, req, resp, logChannel, tickC, fpc,
                   logs, mu, inflight, writes, enqueued>>
    /\ UNCHANGED queryVars

\* The process ends: router.Run returns and main returns (or the process
\* receives a terminating signal; main installs no handler). Every goroutine
\* stops where it is.
Exit ==
    /\ running
    /\ running' = FALSE
    /\ UNCHANGED <<now, nreq, pc, cur, req, resp, logChannel, tickC, fpc, logs,
                   mu, inflight, writes, enqueued>>
    /\ UNCHANGED queryVars

\* State after initDB and go flushLogs(), before the first request.
Init ==
    /\ running = TRUE
    /\ now = 0
    /\ nreq = 0
    /\ pc = [p \in Producers |-> "idle"]
    /\ cur = [p \in Producers |-> NoEntry]
    /\ req = [p \in Producers |-> NoReq]
    /\ resp = [p \in Producers |-> 0]
    /\ logChannel = <<>>
    /\ tickC = FALSE
    /\ fpc = "select"
    /\ logs = <<>>
    /\ mu = FALSE
    /\ inflight = NoStmt
    /\ writes = <<>>
    /\ enqueued = <<>>
    /\ QueryIdle(ReadmeEnv)

\* Requests of the pipeline specification: each producer sends one kind of
\* well-formed line, and one kind of request that the handler rejects.
PipeRequests(p) ==
    IF p = "p1"
    THEN {Request(TRUE, FALSE, <<"a", " ", "b">>),
          Request(TRUE, FALSE, <<"a", "b">>)}
    ELSE {Request(TRUE, FALSE, <<"b", " ", " ", "a">>),
          Request(FALSE, FALSE, <<"a", " ", "b">>)}

NewRequest ==
    \E p \in Producers : \E r \in PipeRequests(p) :
        nreq < MaxReq /\ ReceiveLogs(p, r)

Send == \E p \in Producers : SendLog(p)

StoreAnswer == \E err \in BOOLEAN : ExecReturn(err)

Next ==
    \/ NewRequest
    \/ Send
    \/ FlushRecv
    \/ FlushTick
    \/ StoreAnswer
    \/ TimerFire
    \/ ClockAdvance
    \/ Exit

Spec == Init /\ [][Next]_vars

\* -------------------------------------------------------------- LiveSpec
\* The pipeline while the process keeps running. The ticker fires again and
\* again; select takes a case that stays ready (it chooses among the ready
\* cases at random); db.Exec returns. The clock stays at its first value: no
\* step of the pipeline reads an entry's timestamp.
LiveNext ==
    \/ NewRequest
    \/ Send
    \/ FlushRecv
    \/ FlushTick
    \/ StoreAnswer
    \/ TimerFire

LiveSpec ==
    /\ Init
    /\ [][LiveNext]_vars
    /\ WF_vars(TimerFire)
    /\ WF_vars(FlushRecv)
    /\ WF_vars(FlushTick)
    /\ WF_vars(StoreAnswer)

\* ------------------------------------------------------------ DecodeSpec
\* The handler applied to one request of producer p1 whose body ranges over
\* every string of at most MaxLen characters, in front of a channel that
\* already holds k entries accepted from p2 (0 <= k <= ChanCap).
Alphabet == {"a", " ", "\t"}

DecodeBodies == UNION {[1..k -> Alphabet] : k \in 0..MaxLen}

DecodeRequests ==
    {Request(TRUE, FALSE, b) : b \in DecodeBodies}
        \cup {Request(FALSE, FALSE, <<"a", " ", "b">>),
              Request(TRUE, TRUE, <<"a", " ", "b">>)}

EarlierRequest == Request(TRUE, FALSE, <<"b", " ", " ", "a">>)

\* The channel after k requests EarlierRequest of p2 were accepted at time 0.
Prefilled(k) == [i \in 1..k |-> LogEntry(i, "p2", <<"b">>, 0, <<" ", "a">>)]

DecodeInit ==
    \E k \in 0..ChanCap :
        /\ running = TRUE
        /\ now = 0
        /\ nreq = k
        /\ pc = [p \in Producers |-> "idle"]
        /\ cur = [p \in Producers |-> NoEntry]
        /\ req = [p \in Producers |->
                    IF p = "p2" /\ k > 0 THEN EarlierRequest ELSE NoReq]
        /\ resp = [p \in Producers |-> IF p = "p2" /\ k > 0 THEN 200 ELSE 0]
        /\ logChannel = Prefilled(k)
        /\ tickC = FALSE
        /\ fpc = "select"
        /\ logs = <<>>
        /\ mu = FALSE
        /\ inflight = NoStmt
        /\ writes = <<>>
        /\ enqueued = Prefilled(k)
        /\ QueryIdle(ReadmeEnv)

DecodeRequest ==
    \E r \in DecodeRequests : req["p1"] = NoReq /\ ReceiveLogs("p1", r)

DecodeNext ==
    \/ DecodeRequest
    \/ Send
    \/ FlushRecv
    \/ FlushTick
    \/ StoreAnswer
    \/ TimerFire
    \/ ClockAdvance
    \/ Exit

DecodeSpec == DecodeInit /\ [][DecodeNext]_vars

\* -------------------------------------------------------- ProducerLiveSpec
\* LiveSpec with the handlers scheduled fairly as well: a handler whose
\* channel send can complete and stays able to complete does complete.
ProducerLiveSpec ==
    LiveSpec /\ \A p \in Producers : WF_vars(SendLog(p))

\* ------------------------------------------------------------ WriterSpec
\* batchSaveLogs and the tick case of flushLogs applied to every slice of at
\* most MaxBatch entries, the empty one included: the state after the
\* requests of the slice were accepted and received by flushLogs.
MaxBatch == 3

BatchEntry(i, p) ==
    IF p = "p1" THEN LogEntry(i, p, <<"a">>, 0, <<"b">>)
    ELSE LogEntry(i, p, <<"b">>, 0, <<" ", "a">>)

WriterBatches ==
    UNION {{[i \in 1..k |-> BatchEntry(i, f[i])] : f \in [1..k -> Producers]} :
             k \in 0..MaxBatch}

Senders(l) == {l[i].prod : i \in 1..Len(l)}

\* The pipeline after the requests of slice l were accepted and received by
\* flushLogs.
Accumulated(l) ==
    /\ running = TRUE
    /\ now = 0
    /\ nreq = Len(l)
    /\ pc = [p \in Producers |-> "idle"]
    /\ cur = [p \in Producers |-> NoEntry]
    /\ req = [p \in Producers |->
                IF p \in Senders(l)
                THEN CHOOSE r \in PipeRequests(p) :
                       r.ua /\ Len(SplitN2(TrimSpace(r.body))) = 2
                ELSE NoReq]
    /\ resp = [p \in Producers |-> IF p \in Senders(l) THEN 200 ELSE 0]
    /\ logChannel = <<>>
    /\ tickC = FALSE
    /\ fpc = "select"
    /\ logs = l
    /\ mu = FALSE
    /\ inflight = NoStmt
    /\ writes = <<>>
    /\ enqueued = l

WriterInit ==
    \E l \in WriterBatches : Accumulated(l) /\ QueryIdle(ReadmeEnv)

\* ------------------------------------------------------------- QuerySpec
\* The GET /logs route under every environment, in front of a table filled by
\* the flush of a slice of at most MaxBatch entries.
QueryInit ==
    \E l \in WriterBatches : \E e \in Envs : Accumulated(l) /\ QueryIdle(e)

GetRequest == \E k \in KeyValues : \E qerr \in BOOLEAN : GetLogs(k, qerr)

QueryNext ==
    \/ GetRequest
    \/ Refill
    \/ FlushTick
    \/ StoreAnswer
    \/ TimerFire

QuerySpec == QueryInit /\ [][QueryNext]_vars

\* batchSaveLogs(logs) called on its own, up to its db.Exec call or its
\* return of nil.
BatchCall ==
    /\ running /\ fpc = "select" /\ writes = <<>>
    /\ LET st == batchSaveLogs(logs) IN
       IF st = NoStmt
       THEN /\ writes' = Append(writes, CallRecord(NilReturn(logs), FALSE))
            /\ UNCHANGED <<inflight, fpc>>
       ELSE /\ inflight' = st
            /\ fpc' = "call"
            /\ UNCHANGED writes
    /\ UNCHANGED <<running, now, nreq, pc, cur, req, resp, logChannel, tickC,
                   logs, mu, enqueued>>
    /\ UNCHANGED queryVars

\* db.Exec returns to the batchSaveLogs called on its own.
BatchReturn(err) ==
    /\ running /\ fpc = "call"
    /\ writes' = Append(writes, CallRecord(inflight, err))
    /\ inflight' = NoStmt
    /\ fpc' = "select"
    /\ UNCHANGED <<running, now, nreq, pc, cur, req, resp, logChannel, tickC,
                   logs, mu, enqueued>>
    /\ UNCHANGED queryVars

BatchAnswer == \E err \in BOOLEAN : BatchReturn(err)

WriterNext ==
    \/ BatchCall
    \/ BatchAnswer
    \/ FlushTick
    \/ StoreAnswer
    \/ TimerFire

WriterSpec == WriterInit /\ [][WriterNext]_vars

\* ================================================================ claims
\* The batches handed to batchSaveLogs so far, in order: those of the calls
\* that returned and the one db.Exec is executing.
HandedBatches ==
    [i \in 1..Len(writes) |-> writes[i].batch]
        \o (IF inflight = NoStmt THEN <<>> ELSE <<inflight.batch>>)

RECURSIVE Flatten(_)
Flatten(ss) == IF ss = <<>> THEN <<>> ELSE Head(ss) \o Flatten(Tail(ss))

\* Every entry handed to batchSaveLogs so far, in hand-over order.
Handed == Flatten(HandedBatches)

IdSet(l) == {l[i].id : i \in 1..Len(l)}

\* C1: no entry is contained in two batches handed to batchSaveLogs (nor
\* twice in one); once a flush is over, the slice that accumulates the next
\* batch shares no entry with the batches handed over; and the handed
\* batches, the slice and the channel together hold exactly the entries
\* whose enqueue completed.
C1_NoDoubleFlush ==
    /\ \A i, j \in 1..Len(Handed) : Handed[i].id = Handed[j].id => i = j
    /\ fpc = "select" => IdSet(logs) \cap IdSet(Handed) = {}
    /\ fpc = "select" =>
         IdSet(Handed) \cup IdSet(logs) \cup IdSet(logChannel) = IdSet(enqueued)
    /\ fpc = "select" =>
         Len(Handed) + Len(logs) + Len(logChannel) = Len(enqueued)

\* Two flushes happened, of N = 2 and M = 1 entries, and nothing is pending.
C1_Witness ==
    /\ Len(writes) = 2
    /\ Len(writes[1].batch) = 2
    /\ Len(writes[2].batch) = 1
    /\ logs = <<>> /\ logChannel = <<>>

\* C2: when the process has exited, neither the channel nor the slice holds
\* an entry, and every entry whose enqueue completed was handed to
\* batchSaveLogs exactly once.
C2_ShutdownDrains ==
    ~running =>
        /\ logChannel = <<>>
        /\ logs = <<>>
        /\ \A k \in 1..Len(enqueued) :
             Cardinality({i \in 1..Len(Handed) : Handed[i].id = enqueued[k].id}) = 1

\* C3: mu is never held while db.Exec is executing, and while it executes an
\* entry waiting in the channel can still be received by flushLogs.
C3_WriteDoesNotBlockIngestion ==
    fpc = "exec" =>
        /\ ~mu
        /\ Len(logChannel) > 0 => ENABLED FlushRecv

\* C4: the channel never holds more than ChanCap entries; a handler at its
\* channel send either stays there, with its entry and without a response,
\* or completes the send into a channel that had a free slot, its entry
\* appended at the tail, and only then answers 200; the channel changes only
\* by such a send or by the receive of flushLogs, which moves its head to the
\* slice (no entry is dropped).
C4_BoundedBlockingBuffer ==
    /\ [](Len(logChannel) <= ChanCap)
    /\ [][\A p \in Producers :
            pc[p] = "send" =>
              \/ pc'[p] = "send" /\ cur'[p] = cur[p] /\ resp'[p] = 0
                   /\ resp[p] = 0
              \/ /\ Len(logChannel) < ChanCap
                 /\ logChannel' = Append(logChannel, cur[p])
                 /\ resp'[p] = 200
                 /\ pc'[p] = "idle"]_vars
    /\ [][\/ logChannel' = logChannel
          \/ \E p \in Producers :
                /\ pc[p] = "send" /\ Len(logChannel) < ChanCap
                /\ logChannel' = Append(logChannel, cur[p])
          \/ /\ logChannel # <<>>
             /\ logChannel' = Tail(logChannel)
             /\ logs' = Append(logs, Head(logChannel))]_vars

\* The channel is full and a handler is suspended at its send.
C4_Witness ==
    /\ Len(logChannel) = ChanCap
    /\ \E p \in Producers : pc[p] = "send" /\ resp[p] = 0

\* Position in l of the entry numbered id.
PosOf(l, id) == CHOOSE i \in 1..Len(l) : l[i].id = id

\* The rows of a returned call, read off the arguments of its statement.
Rows(w) ==
    [i \in 1..(Len(w.args) \div 3) |->
        <<w.args[3 * i - 2], w.args[3 * i - 1], w.args[3 * i]>>]

\* C5: two handed entries of the same producer are handed over in the order
\* in which their enqueues completed (an earlier batch, or an earlier
\* position of the same batch), and each statement carries the rows of its
\* batch in batch order.
C5_PerProducerOrder ==
    /\ \A i, j \in 1..Len(Handed) :
         (i < j /\ Handed[i].prod = Handed[j].prod) =>
             /\ Handed[i].id \in IdSet(enqueued)
             /\ Handed[j].id \in IdSet(enqueued)
             /\ PosOf(enqueued, Handed[i].id) < PosOf(enqueued, Handed[j].id)
    /\ \A k \in 1..Len(writes) :
         /\ Len(Rows(writes[k])) = Len(writes[k].batch)
         /\ \A i \in 1..Len(writes[k].batch) :
              Rows(writes[k])[i] = <<writes[k].batch[i].Source,
                                     writes[k].batch[i].TimeStamp,
                                     writes[k].batch[i].Message>>

\* Two entries of one producer were enqueued and one flush wrote exactly
\* those two rows.
C5_Witness ==
    /\ Len(writes) = 1
    /\ Len(writes[1].batch) = 2
    /\ writes[1].batch[1].prod = writes[1].batch[2].prod
    /\ writes[1].batch = enqueued

\* Entries of the batches whose write failed.
FailedIds ==
    UNION {IdSet(writes[k].batch) : k \in {i \in 1..Len(writes) : writes[i].err}}

\* C6: when db.Exec returns an error the slice is empty afterwards, the
\* flush task is back at its select with mu released, and no response, no
\* handler and no channel content changes in that step; no entry of a failed
\* batch is in the channel, in the slice or in a later batch.
C6_FailedBatchDiscarded ==
    /\ [][(Len(writes') = Len(writes) + 1 /\ writes'[Len(writes')].err) =>
            /\ logs' = <<>>
            /\ fpc' = "select" /\ ~mu' /\ running'
            /\ resp' = resp /\ pc' = pc /\ logChannel' = logChannel]_vars
    /\ [](/\ FailedIds \cap IdSet(logs) = {}
          /\ FailedIds \cap IdSet(logChannel) = {}
          /\ \A k \in 1..Len(writes) :
               writes[k].err =>
                 \A m \in (k + 1)..Len(HandedBatches) :
                     IdSet(writes[k].batch) \cap IdSet(HandedBatches[m]) = {})

\* A batch write failed and a later batch was accepted and written.
C6_Witness ==
    /\ Len(writes) = 2
    /\ writes[1].err
    /\ ~writes[2].err
    /\ Len(writes[2].batch) > 0

\* C7: a handled tick that finds the slice non-empty hands the whole slice to
\* batchSaveLogs, and every entry placed in the channel is eventually in a
\* batch handed to batchSaveLogs.
C7_NoStarvation ==
    /\ [][(tickC /\ ~tickC' /\ logs # <<>>) =>
            inflight' # NoStmt /\ inflight'.batch = logs]_vars
    /\ \A i \in 1..MaxReq :
         (i \in IdSet(logChannel)) ~> (i \in IdSet(Handed))

\* An entry was flushed by a tick while later entries were still arriving.
C7_Witness ==
    /\ inflight # NoStmt
    /\ Len(inflight.batch) = 1
    /\ logChannel # <<>>
    /\ \E p \in Producers : pc[p] = "send"

\* C8: a handled tick that finds the slice empty changes nothing but the
\* tick (no store call, no recorded call, no error); a call of batchSaveLogs
\* with an empty slice returns nil without reaching db.Exec; and every
\* statement handed to db.Exec carries at least one row.
C8_EmptyFlushIsNoOp ==
    /\ [][(tickC /\ ~tickC' /\ logs = <<>>) =>
            UNCHANGED <<inflight, writes, logs, fpc, mu>>]_vars
    /\ [](\A k \in 1..Len(writes) :
            /\ writes[k].batch = <<>> => ~writes[k].exec /\ ~writes[k].err
            /\ writes[k].exec =>
                 Len(Rows(writes[k])) >= 1 /\ Len(writes[k].query) >= 2)
    /\ [](inflight # NoStmt =>
            Len(inflight.batch) >= 1 /\ Len(inflight.args) >= 3)

\* batchSaveLogs was called with an empty slice and returned.
C8_Witness ==
    /\ Len(writes) = 1
    /\ writes[1].batch = <<>>
    /\ ~writes[1].exec

\* A body has an interior space: a " " with a non-whitespace character
\* somewhere before it and somewhere after it.
HasInteriorSpace(b) ==
    \E i \in 1..Len(b) :
        /\ b[i] = " "
        /\ \E j \in 1..(i - 1) : ~IsSpace(b[j])
        /\ \E k \in (i + 1)..Len(b) : ~IsSpace(b[k])

\* An admitted request (accepted User-Agent, body read).
Admitted(r) == r # NoReq /\ r.ua /\ ~r.readErr

\* Every entry of producer p that exists anywhere in the pipeline.
EntriesOf(p) ==
    {e \in {cur[q] : q \in Producers}
             \cup {logChannel[i] : i \in 1..Len(logChannel)}
             \cup {logs[i] : i \in 1..Len(logs)}
             \cup {Handed[i] : i \in 1..Len(Handed)}
             \cup {enqueued[i] : i \in 1..Len(enqueued)} :
        e # NoEntry /\ e.prod = p}

\* C9: the handler answers an admitted request whose body has no interior
\* space with 400 in the step that receives it, and that step changes neither
\* the channel nor any handler's pending send; afterwards no entry of that
\* request exists anywhere.
C9_MalformedRejected ==
    /\ [][(req["p1"] = NoReq /\ Admitted(req'["p1"])
             /\ ~HasInteriorSpace(req'["p1"].body)) =>
            /\ resp'["p1"] = 400
            /\ logChannel' = logChannel
            /\ pc' = pc /\ cur' = cur /\ enqueued' = enqueued]_vars
    /\ []((Admitted(req["p1"]) /\ ~HasInteriorSpace(req["p1"].body)) =>
            /\ resp["p1"] = 400
            /\ pc["p1"] = "idle"
            /\ EntriesOf("p1") = {})

\* A body of whitespace around one word was rejected in front of a full
\* channel.
C9_Witness ==
    /\ Admitted(req["p1"])
    /\ req["p1"].body = <<" ", "a", "\t">>
    /\ resp["p1"] = 400
    /\ Len(logChannel) = ChanCap

\* The body without its leading and trailing whitespace.
Core(b) ==
    LET I == {i \in 1..Len(b) : ~IsSpace(b[i])} IN
    IF I = {} THEN <<>>
    ELSE SubSeq(b, CHOOSE x \in I : \A y \in I : x <= y,
                   CHOOSE x \in I : \A y \in I : y <= x)

\* C10 as stated: for an admitted body with an interior space the handler
\* builds an entry (no 400) whose source is the non-empty text before the
\* first space and whose message is the trimmed remainder after that space.
C10_MessageIsTrimmedRemainder ==
    (Admitted(req["p1"]) /\ HasInteriorSpace(req["p1"].body)) =>
        /\ resp["p1"] \in {0, 200}
        /\ EntriesOf("p1") # {}
        /\ \A e \in EntriesOf("p1") :
             LET line == Core(req["p1"].body)
                 i == IndexSpace(line)
             IN  /\ e.Source # <<>>
                 /\ e.Source = SubSeq(line, 1, i - 1)
                 /\ e.Message = Core(SubSeq(line, i + 1, Len(line)))

\* C10 amended: for an admitted body with an interior space the handler
\* builds an entry (no 400) whose source is the non-empty, space-free text
\* before the first space of the trimmed body and whose message is all of the
\* trimmed body after that first space, further separating spaces included:
\* source, one space and message together spell the trimmed body.
C10_MessageIsRemainder ==
    (Admitted(req["p1"]) /\ HasInteriorSpace(req["p1"].body)) =>
        /\ resp["p1"] \in {0, 200}
        /\ (resp["p1"] = 0) = (pc["p1"] = "send")
        /\ EntriesOf("p1") # {}
        /\ \A e \in EntriesOf("p1") :
             /\ e.Source # <<>>
             /\ \A i \in 1..Len(e.Source) : e.Source[i] # " "
             /\ e.Source \o <<" ">> \o e.Message = Core(req["p1"].body)

\* A body whose source and message are separated by two spaces was accepted:
\* the message starts with the second space.
C10_Witness ==
    /\ Admitted(req["p1"])
    /\ req["p1"].body = <<"a", " ", " ", "a">>
    /\ resp["p1"] = 200
    /\ \E e \in EntriesOf("p1") : e.Source = <<"a">> /\ e.Message = <<" ", "a">>

\* The batches of the calls of batchSaveLogs that returned, in order.
ReturnedBatches == [k \in 1..Len(writes) |-> writes[k].batch]

IsPrefix(a, b) == Len(a) <= Len(b) /\ a = SubSeq(b, 1, Len(a))

\* C11: a statement is handed to db.Exec only by a step of flushLogs that
\* handles a tick, with no statement in progress, and no handler moves in
\* that step; a call returns only for the statement in progress, again in a
\* step no handler takes part in; and the batches reach the store in flush
\* order: put one after the other they are the first entries that were
\* enqueued, in enqueue order.
C11_FlushTaskIsOnlyWriter ==
    /\ [][(inflight' # inflight /\ inflight' # NoStmt) =>
            /\ inflight = NoStmt
            /\ fpc = "select" /\ fpc' = "exec"
            /\ tickC /\ ~tickC'
            /\ inflight'.batch = logs
            /\ pc' = pc /\ cur' = cur /\ resp' = resp /\ req' = req]_vars
    /\ [][writes' # writes =>
            /\ inflight # NoStmt /\ inflight' = NoStmt
            /\ fpc = "exec" /\ fpc' = "select"
            /\ \E err \in BOOLEAN : writes' = Append(writes, CallRecord(inflight, err))
            /\ pc' = pc /\ cur' = cur /\ resp' = resp /\ req' = req]_vars
    /\ []((fpc = "exec") = (inflight # NoStmt))
    /\ [](IsPrefix(Flatten(ReturnedBatches), enqueued))

\* One batch reached the store and the next one is being written.
C11_Witness ==
    /\ Len(writes) = 1
    /\ writes[1].exec
    /\ inflight # NoStmt
    /\ inflight.batch # writes[1].batch

\* C12: a batch is handed to batchSaveLogs only in a step that takes a tick
\* from ticker.C; a step in which a handler decodes or enqueues an entry, or
\* in which flushLogs receives one, starts no write, ends none, and leaves
\* the ticker as it was, whatever the size of the slice.
C12_FlushesAreTimeDriven ==
    /\ [][(inflight' # NoStmt /\ inflight' # inflight) =>
            tickC /\ ~tickC' /\ logChannel' = logChannel /\ logs' = logs]_vars
    /\ [][(logChannel' # logChannel \/ pc' # pc \/ nreq' # nreq
             \/ Len(logs') > Len(logs)) =>
            tickC' = tickC /\ inflight' = inflight /\ writes' = writes
              /\ fpc' = fpc]_vars

\* The slice grew to three entries without a flush, and the tick that came
\* then handed all three over.
C12_Witness ==
    /\ inflight # NoStmt
    /\ Len(inflight.batch) = 3
    /\ writes = <<>>

\* The request of producer p is an admitted, well-formed line.
WellFormed(p) == Admitted(req[p]) /\ HasInteriorSpace(req[p].body)

\* C13: a handler writes 200 exactly in the step that completes its channel
\* send, and every completed send is answered 200 in the same step; a 200
\* stands only for an admitted, well-formed line; a handler that has not yet
\* completed its send has answered nothing; and no step in which db.Exec
\* returns, with or without an error, changes a response.
C13_AckDecoupledFromDurability ==
    /\ [][\A p \in Producers :
            (resp'[p] = 200 /\ resp[p] # 200) =>
               /\ pc[p] = "send" /\ pc'[p] = "idle"
               /\ logChannel' = Append(logChannel, cur[p])
               /\ enqueued' = Append(enqueued, cur[p])]_vars
    /\ [][enqueued' # enqueued =>
            \E p \in Producers :
               /\ enqueued' = Append(enqueued, cur[p])
               /\ resp[p] = 0 /\ resp'[p] = 200]_vars
    /\ [][writes' # writes => resp' = resp /\ pc' = pc]_vars
    /\ [](\A p \in Producers :
            /\ resp[p] = 200 => WellFormed(p) /\ pc[p] = "idle"
            /\ pc[p] = "send" => WellFormed(p) /\ resp[p] = 0
            /\ (WellFormed(p) /\ pc[p] = "idle") => resp[p] = 200)

\* A producer holds a 200 for an entry whose batch write failed.
C13_Witness ==
    \E p \in Producers :
        /\ resp[p] = 200
        /\ \E k \in 1..Len(writes) :
             /\ writes[k].err
             /\ \E i \in 1..Len(writes[k].batch) : writes[k].batch[i].prod = p

\* Both keys are set in the environment.
KeysConfigured == env.API_KEY # "" /\ env.LOG_API_KEY # ""

\* C14: with both keys configured, a GET /logs request that the rate limiter
\* lets pass reaches the log query exactly when its X-API-KEY header equals
\* LOG_API_KEY; the request of the README, whose header is LOG_API_KEY, is
\* not answered 401.
C14_LogKeyAuthenticates ==
    (greq # NoGet /\ KeysConfigured /\ gresp.status # 429) =>
        /\ gresp.reached <=> (greq.key = env.LOG_API_KEY)
        /\ greq.key = env.LOG_API_KEY => gresp.status # 401

\* Ascending positions of a response hold non-increasing timestamps.
Descending(rows) ==
    \A i, j \in 1..Len(rows) : i < j => rows[i][2] >= rows[j][2]

\* C15: a GET /logs request that passed both key checks, and whose db.Query
\* returned rows, is answered 200 with min(stored rows, 100) rows in
\* descending timestamp order, whether or not the table is empty.
C15_QueryReturnsStoredRows ==
    (greq # NoGet /\ gresp.reached /\ gresp.why # "query") =>
        /\ gresp.status = 200
        /\ Len(gresp.rows) = Min2(gresp.seen, QueryLimit)
        /\ Descending(gresp.rows)

\* C16: when the process has ended, every entry of a producer that holds a
\* 200 was handed to batchSaveLogs; an entry that came too late for the last
\* flush was answered with an error instead.
C16_NoAcknowledgedEntryDropped ==
    ~running =>
        \A p \in Producers :
            resp[p] = 200 =>
                \A k \in 1..Len(enqueued) :
                    enqueued[k].prod = p => enqueued[k].id \in IdSet(Handed)

\* The statements handed to db.Exec so far: those of the calls that returned
\* and the one in progress.
Statements ==
    {writes[k] : k \in {j \in 1..Len(writes) : writes[j].exec}}
        \cup (IF inflight = NoStmt THEN {} ELSE {inflight})

\* The i-th row (1-based) of the argument list of statement st.
RowOf(st, i) == <<st.args[3 * i - 2], st.args[3 * i - 1], st.args[3 * i]>>

Triple(e) == <<e.Source, e.TimeStamp, e.Message>>

\* C17: every row of every statement handed to db.Exec is the (Source,
\* TimeStamp, Message) of the entry as it was enqueued; the entries in the
\* channel and in the slice are entries as they were enqueued; an entry is
\* built from the trimmed body split at its first space and the clock of
\* the step that builds it, and is not changed while its handler waits to
\* send it.
C17_EntriesImmutable ==
    /\ [](\A st \in Statements :
            \A i \in 1..Len(st.batch) :
               \E k \in 1..Len(enqueued) :
                  /\ enqueued[k] = st.batch[i]
                  /\ RowOf(st, i) = Triple(enqueued[k]))
    /\ [](\A i \in 1..Len(logChannel) :
            \E k \in 1..Len(enqueued) : enqueued[k] = logChannel[i])
    /\ [](\A i \in 1..Len(logs) :
            \E k \in 1..Len(enqueued) : enqueued[k] = logs[i])
    /\ [][\A p \in Producers :
            (cur'[p] # cur[p] /\ cur'[p] # NoEntry) =>
               LET parts == SplitN2(TrimSpace(req'[p].body)) IN
               /\ cur[p] = NoEntry
               /\ Triple(cur'[p]) = <<parts[1], now, parts[2]>>]_vars

\* A row captured at time 0 is being written at time 1.
C17_Witness ==
    /\ inflight # NoStmt
    /\ now = 1
    /\ inflight.args[2] = 0

\* C18: every statement handed to db.Exec for a batch of n entries is the
\* prefix followed by n placeholder groups, group i (0-based) being
\* ($3i+1, $3i+2, $3i+3), with a comma between two groups and none after
\* the last; its argument list has 3n values, values 3i..3i+2 (0-based)
\* being the i-th entry's Source, TimeStamp and Message; and the step that
\* handles a tick hands the whole slice to one call.
C18_SingleStatementCarriesBatch ==
    /\ [](\A st \in Statements :
            LET n == Len(st.batch) IN
            /\ n >= 1
            /\ Len(st.query) = 2 * n
            /\ st.query[1] = QueryPrefix
            /\ \A i \in 0..(n - 1) :
                 /\ st.query[2 * i + 2] = <<3 * i + 1, 3 * i + 2, 3 * i + 3>>
                 /\ i < n - 1 => st.query[2 * i + 3] = ","
            /\ st.query[Len(st.query)] # ","
            /\ Len(st.args) = 3 * n
            /\ \A i \in 0..(n - 1) :
                 /\ st.args[3 * i + 1] = st.batch[i + 1].Source
                 /\ st.args[3 * i + 2] = st.batch[i + 1].TimeStamp
                 /\ st.args[3 * i + 3] = st.batch[i + 1].Message)
    /\ [][(tickC /\ ~tickC' /\ logs # <<>>) =>
            /\ inflight = NoStmt /\ inflight' # NoStmt
            /\ inflight'.batch = logs
            /\ writes' = writes]_vars

\* A statement for a batch of three entries was executed.
C18_Witness ==
    /\ Len(writes) = 1
    /\ writes[1].exec
    /\ Len(writes[1].batch) = 3
    /\ tickC = FALSE

\* The number of positions of the channel, the slice and the batches of the
\* returned calls that hold the entry with the given id.
Places(id) ==
    Cardinality({i \in 1..Len(logChannel) : logChannel[i].id = id})
      + Cardinality({i \in 1..Len(logs) : logs[i].id = id})
      + Cardinality({i \in 1..Len(Flatten(ReturnedBatches)) :
                        Flatten(ReturnedBatches)[i].id = id})

ProducerBlocked == \E p \in Producers : pc[p] = "send" /\ ~CanSend(logChannel)

\* C20: flushLogs holds mu only inside one iteration of its loop, never
\* while it waits in the select; whenever a handler is blocked on the full
\* channel, flushLogs can take a step (receive an entry, or have its db.Exec
\* call return); and with db.Exec returning and flushLogs and the handlers
\* scheduled fairly, every handler waiting at its channel send completes
\* the send and answers 200.
C20_DeadlockFreedom ==
    /\ [](fpc = "select" => ~mu)
    /\ [](ProducerBlocked => (ENABLED FlushRecv \/ ENABLED StoreAnswer))
    /\ \A p \in Producers :
         (pc[p] = "send") ~> (pc[p] = "idle" /\ resp[p] = 200)

\* A handler is blocked on the full channel while flushLogs waits in its
\* select with a tick pending: it may take the tick or the entry.
C20_Witness ==
    /\ ProducerBlocked
    /\ fpc = "select"
    /\ tickC

====
